---- MODULE Spec2Model ----
(***************************************************************************)
(* A model of next-svgl's `add` command (src/src/types/index.ts, which     *)
(* holds src/commands/add.ts) and of the React components it generates.    *)
(*                                                                         *)
(* Text is modelled as a sequence of one-character strings, so that the    *)
(* regular-expression replacements of the source are computed character    *)
(* by character.                                                           *)
(***************************************************************************)
EXTENDS Naturals, Sequences, FiniteSets, TLC

VARIABLES
  \* ---- one run of add() ----
  pc,                \* position in add(): start, select, ensureDir, loop, rebuild, done
  args,              \* the name tokens given on the command line
  svgs,              \* response.data, the catalog
  selectedSVGs,      \* the resolved selection
  notFound,          \* the tokens reported as not found
  i,                 \* index of the next selectedSVGs item of the for loop
  createdComponents, \* the records pushed during this run
  allComponents,     \* the records the index file is built from
  dirExists,         \* whether components/svgl exists
  disk,              \* the files of components/svgl: file name -> content
  console,           \* the messages printed
  outcome,           \* how the run ended ("running" until then)
  \* ---- history of the run, read by the properties only ----
  disk0,             \* the directory as the run found it
  dirExists0,
  fetched,           \* the markup locators fetched during this run
  written,           \* the file names written during this run
  prompted,          \* whether a selection step (filter or prompt) was performed
  processed,         \* per processed item: its title, failing step and records pushed
  \* ---- the pure helpers, applied to drawn inputs ----
  fnPc, fnTitle, fnSlug, fnKebab, fnReslug, fnMarkup, fnOut,
  \* ---- one generated component mounted in a React tree ----
  uiComp, uiProps, uiTheme, uiMounted, uiRendered

runVars == <<pc, args, svgs, selectedSVGs, notFound, i, createdComponents,
             allComponents, dirExists, disk, console, outcome,
             disk0, dirExists0, fetched, written, prompted, processed>>
fnVars == <<fnPc, fnTitle, fnSlug, fnKebab, fnReslug, fnMarkup, fnOut>>
uiVars == <<uiComp, uiProps, uiTheme, uiMounted, uiRendered>>
vars == <<runVars, fnVars, uiVars>>

(***************************************************************************)
(* Bounds of the model.                                                    *)
(***************************************************************************)
MaxCatalog == 2
MaxArgs == 2
MaxTitleLen == 4
MaxChunks == 3

(***************************************************************************)
(* Characters and text.                                                    *)
(***************************************************************************)
UpperCase ==
  <<"A","B","C","D","E","F","G","H","I","J","K","L","M",
    "N","O","P","Q","R","S","T","U","V","W","X","Y","Z">>
LowerCase ==
  <<"a","b","c","d","e","f","g","h","i","j","k","l","m",
    "n","o","p","q","r","s","t","u","v","w","x","y","z">>
Digits == <<"0","1","2","3","4","5","6","7","8","9">>

Range(s) == {s[k] : k \in 1..Len(s)}
LowerSet == Range(LowerCase)
UpperSet == Range(UpperCase)
DigitSet == Range(Digits)
WhiteSpace == {" ", "\n", "\t"}

Min(S) == CHOOSE x \in S : \A y \in S : x <= y

\* All sequences over S of length at most n.
SeqsUpTo(S, n) == UNION {[1..k -> S] : k \in 0..n}

RECURSIVE Flatten(_)
Flatten(ss) == IF ss = <<>> THEN <<>> ELSE Head(ss) \o Flatten(Tail(ss))

HasPrefixAt(s, k, pat) ==
  /\ k + Len(pat) - 1 <= Len(s)
  /\ \A j \in 1..Len(pat) : s[k + j - 1] = pat[j]

Contains(s, pat) == \E k \in 1..(Len(s) + 1) : HasPrefixAt(s, k, pat)
EndsWith(s, pat) ==
  Len(s) >= Len(pat) /\ HasPrefixAt(s, Len(s) - Len(pat) + 1, pat)

\* String.prototype.replace(pat, '') with a string pattern: the first occurrence.
RemoveFirst(s, pat) ==
  LET at == {k \in 1..Len(s) : HasPrefixAt(s, k, pat)}
  IN  IF at = {} THEN s
      ELSE SubSeq(s, 1, Min(at) - 1) \o SubSeq(s, Min(at) + Len(pat), Len(s))

\* String.prototype.toLowerCase, one character ("É" stands for the letters
\* outside ASCII: it has a lower case, which is not in [a-z]).
LowerOf == [c \in UpperSet |-> LowerCase[CHOOSE k \in 1..Len(UpperCase) : UpperCase[k] = c]]
LowerChar(c) ==
  IF c \in UpperSet THEN LowerOf[c]
  ELSE IF c = "É" THEN "é" ELSE c

toLowerCase(s) == [k \in 1..Len(s) |-> LowerChar(s[k])]

\* [a-z0-9] and [a-zA-Z0-9]
IsLowerAlnum(c) == c \in LowerSet \cup DigitSet
IsAlnum(c) == c \in LowerSet \cup UpperSet \cup DigitSet

\* .replace(/[^a-z0-9]+/g, '-'): every maximal run of other characters
\* becomes one '-'.
ReplaceRuns(s) ==
  LET F[k \in 0..Len(s)] ==
        IF k = 0 THEN <<>>
        ELSE IF IsLowerAlnum(s[k]) THEN Append(F[k-1], s[k])
        ELSE IF k > 1 /\ ~IsLowerAlnum(s[k-1]) THEN F[k-1]
        ELSE Append(F[k-1], "-")
  IN  F[Len(s)]

\* .replace(/^-|-$/g, ''): a '-' at the start and a '-' at the end are removed.
TrimDashes(s) ==
  LET a == IF Len(s) > 0 /\ s[1] = "-" THEN Tail(s) ELSE s
  IN  IF Len(a) > 0 /\ a[Len(a)] = "-" THEN SubSeq(a, 1, Len(a) - 1) ELSE a

\* The slug as the selection filter derives it (kebabName).
kebabName(title) == TrimDashes(ReplaceRuns(toLowerCase(title)))

\* The slug as the generation loop derives it (fileName).
fileNameUntrimmed(title) == ReplaceRuns(toLowerCase(title))
fileName(title) == TrimDashes(ReplaceRuns(toLowerCase(title)))

\* svg.title.replace(/[^a-zA-Z0-9]/g, '')
componentName(title) == SelectSeq(title, IsAlnum)

(***************************************************************************)
(* extractSvgContent                                                       *)
(***************************************************************************)
\* String.prototype.trim
RECURSIVE TrimLeft(_)
TrimLeft(s) ==
  IF s # <<>> /\ Head(s) \in WhiteSpace THEN TrimLeft(Tail(s)) ELSE s
RECURSIVE TrimRight(_)
TrimRight(s) ==
  IF s # <<>> /\ s[Len(s)] \in WhiteSpace
  THEN TrimRight(SubSeq(s, 1, Len(s) - 1)) ELSE s
trim(s) == TrimRight(TrimLeft(s))

Quote == "\""

\* The matches of /name="[^"]*"/ in s: <<first, last>> positions, by start.
AttrRegexMatches(s, name) ==
  LET pat == name \o <<"=", Quote>>
  IN  {m \in (1..Len(s)) \X (1..Len(s)) :
         /\ HasPrefixAt(s, m[1], pat)
         /\ m[2] >= m[1] + Len(pat)
         /\ s[m[2]] = Quote
         /\ \A j \in (m[1] + Len(pat))..(m[2] - 1) : s[j] # Quote}

\* .replace(/name="[^"]*"/, ''): the leftmost match is removed.
RemoveFirstMatch(s, name) ==
  LET ms == AttrRegexMatches(s, name)
  IN  IF ms = {} THEN s
      ELSE LET m == CHOOSE x \in ms : \A y \in ms : x[1] <= y[1]
           IN  SubSeq(s, 1, m[1] - 1) \o SubSeq(s, m[2] + 1, Len(s))

WidthName == <<"w","i","d","t","h">>
HeightName == <<"h","e","i","g","h","t">>

extractSvgContent(svgString) ==
  RemoveFirstMatch(RemoveFirstMatch(trim(svgString), WidthName), HeightName)

(***************************************************************************)
(* The pure helpers applied to drawn inputs.                               *)
(***************************************************************************)
TitleChars == {"a", "B", "1", " ", "-", "É"}
Titles == SeqsUpTo(TitleChars, MaxTitleLen)

SvgOpen == <<"<","s","v","g">>
SvgClose == <<">">>
SvgEnd == <<"<","/","s","v","g",">">>
Newline == <<"\n">>
AttrWidth == <<" ","w","i","d","t","h","=",Quote,"2","4",Quote>>
AttrHeight == <<" ","h","e","i","g","h","t","=",Quote,"2","4",Quote>>
AttrStrokeWidth == <<" ","s","t","r","o","k","e","-","w","i","d","t","h","=",Quote,"2",Quote>>
AttrFill == <<" ","f","i","l","l","=",Quote,"n","o","n","e",Quote>>
AttrLineHeight == <<" ","l","i","n","e","-","h","e","i","g","h","t","=",Quote,"1",Quote>>
ChildPath == <<"<","p","a","t","h","/",">">>
ChildRect == <<"<","r","e","c","t"," ","w","i","d","t","h","=",Quote,"2","4",Quote," ","h","e","i","g","h","t","=",Quote,"2","4",Quote,"/",">">>

\* The attributes the root element may carry, and its child.
Attrs == {AttrWidth, AttrHeight, AttrStrokeWidth, AttrFill, AttrLineHeight}
Children == {ChildPath, ChildRect}
\* What the server sends before and after the document.
Paddings == {<<>>, Newline}

\* <svg ATTRS>CHILD</svg>, as served
Document(attrs, child, pad) ==
  pad \o SvgOpen \o Flatten(attrs) \o SvgClose \o child \o SvgEnd \o pad

Markups ==
  {Document(attrs, child, pad) :
     attrs \in SeqsUpTo(Attrs, MaxChunks), child \in Children, pad \in Paddings}

\* <svg width="24" height="24"><path/></svg>
SamplePlain == Document(<<AttrWidth, AttrHeight>>, ChildPath, <<>>)
\* <svg stroke-width="2" width="24" height="24"><path/></svg>
SampleStroke == Document(<<AttrStrokeWidth, AttrWidth, AttrHeight>>, ChildPath, <<>>)

InitFn ==
  /\ \/ fnPc = "title" /\ fnTitle \in Titles /\ fnMarkup = <<>>
     \/ fnPc = "markup" /\ fnTitle = <<>> /\ fnMarkup \in Markups
  /\ fnSlug = <<>>
  /\ fnKebab = <<>>
  /\ fnReslug = <<>>
  /\ fnOut = <<>>

IdleFn ==
  /\ fnPc = "idle"
  /\ fnTitle = <<>>
  /\ fnMarkup = <<>>
  /\ fnSlug = <<>>
  /\ fnKebab = <<>>
  /\ fnReslug = <<>>
  /\ fnOut = <<>>

\* Both derivations of the slug of one title.
Slugify ==
  /\ fnPc = "title"
  /\ fnSlug' = fileName(fnTitle)
  /\ fnKebab' = kebabName(fnTitle)
  /\ fnPc' = "slugged"
  /\ UNCHANGED <<fnTitle, fnReslug, fnMarkup, fnOut>>
  /\ UNCHANGED <<runVars, uiVars>>

\* The slug of a slug.
Reslug ==
  /\ fnPc = "slugged"
  /\ fnReslug' = fileName(fnSlug)
  /\ fnPc' = "reslugged"
  /\ UNCHANGED <<fnTitle, fnSlug, fnKebab, fnMarkup, fnOut>>
  /\ UNCHANGED <<runVars, uiVars>>

Sanitize ==
  /\ fnPc = "markup"
  /\ fnOut' = extractSvgContent(fnMarkup)
  /\ fnPc' = "sanitized"
  /\ UNCHANGED <<fnTitle, fnSlug, fnKebab, fnReslug, fnMarkup>>
  /\ UNCHANGED <<runVars, uiVars>>

NextFn == Slugify \/ Reslug \/ Sanitize

(***************************************************************************)
(* The catalog: icon descriptors (iSVG).  A route or wordmark is a string  *)
(* (kind "single") or a ThemeOptions record (kind "themed"); an absent     *)
(* wordmark has kind "none".  A locator stands for the markup it serves.   *)
(***************************************************************************)
NoRoute == [kind |-> "none", light |-> "", dark |-> ""]
Single(loc) == [kind |-> "single", light |-> loc, dark |-> loc]
Themed(l, d) == [kind |-> "themed", light |-> l, dark |-> d]

TitleGitHub == <<"G","i","t","H","u","b">>
TitleCopilot == <<"G","i","t","H","u","b"," ","C","o","p","i","l","o","t">>
TitleAB == <<"A"," ","B">>
TitleADashB == <<"a","-","b">>

IconGitHub ==
  [title |-> TitleGitHub, route |-> Single("github.svg"),
   wordmark |-> Themed("github-wm-light.svg", "github-wm-dark.svg")]
IconCopilot ==
  [title |-> TitleCopilot, route |-> Themed("copilot-light.svg", "copilot-dark.svg"),
   wordmark |-> NoRoute]
IconAB ==
  [title |-> TitleAB, route |-> Single("ab.svg"), wordmark |-> Single("ab-wm.svg")]
IconADashB ==
  [title |-> TitleADashB, route |-> Single("a-dash-b.svg"), wordmark |-> NoRoute]
\* An icon of an earlier catalog: its symbol is that of "A B", its slug is not.
IconABJoined ==
  [title |-> <<"A","B">>, route |-> Themed("abj-light.svg", "abj-dark.svg"),
   wordmark |-> NoRoute]

Icons == {IconGitHub, IconCopilot, IconAB, IconADashB}
Catalogs == SeqsUpTo(Icons, MaxCatalog)

TokGitHub == <<"g","i","t","h","u","b">>
TokADashB == <<"A","-","B">>
TokASpaceB == <<"a"," ","b">>
Tokens == {TokGitHub, TokADashB, TokASpaceB}
ArgLists == SeqsUpTo(Tokens, MaxArgs)

(***************************************************************************)
(* Files of components/svgl.                                               *)
(***************************************************************************)
DotTsx == <<".","t","s","x">>
IndexFile == <<"i","n","d","e","x",".","t","s","x">>
WordmarkSuffix == <<"-","w","o","r","d","m","a","r","k">>
WordmarkName == <<"W","o","r","d","m","a","r","k">>

\* A generated component file: the identifier it exports, the template it was
\* written from, the defaults of its width and height props and its markup.
Component(name, template, w, h, route) ==
  [kind |-> "component", exportName |-> name, template |-> template,
   width |-> w, height |-> h, light |-> route.light, dark |-> route.dark,
   imports |-> <<>>, exports |-> <<>>]
\* A file the tool did not write and that exports no constant.
OtherFile ==
  [kind |-> "other", exportName |-> <<>>, template |-> "none",
   width |-> 0, height |-> 0, light |-> "", dark |-> "",
   imports |-> <<>>, exports |-> <<>>]
\* index.tsx: one import line per record, then one export list.
IndexContent(all) ==
  [kind |-> "index", exportName |-> <<>>, template |-> "none",
   width |-> 0, height |-> 0, light |-> "", dark |-> "",
   imports |-> [k \in 1..Len(all) |-> <<all[k].name, all[k].fileName>>],
   exports |-> [k \in 1..Len(all) |-> all[k].name]]

EmptyDisk == [f \in {} |-> OtherFile]
WriteFile(d, file, content) ==
  [f \in DOMAIN d \cup {file} |-> IF f = file THEN content ELSE d[f]]

(***************************************************************************)
(* Selection (exact match).                                                *)
(***************************************************************************)
requestedNamesOf(a) == [k \in 1..Len(a) |-> toLowerCase(a[k])]

\* The filter's test: requestedNames.some(name => kebabName === name || svgName === name)
nameMatchesSubstring(svg, requestedNames) ==
  \E k \in 1..Len(requestedNames) :
    \/ Contains(kebabName(svg.title), toLowerCase(requestedNames[k]))
    \/ Contains(toLowerCase(svg.title), toLowerCase(requestedNames[k]))
nameMatches(svg, requestedNames) ==
  LET svgName == toLowerCase(svg.title)
      kebab == kebabName(svg.title)
  IN  \E k \in 1..Len(requestedNames) :
        \/ kebab = toLowerCase(requestedNames[k])
        \/ svgName = toLowerCase(requestedNames[k])

RECURSIVE filterByName(_, _)
\* svgs.filter(svg => ...), with the test of lines 53-61
filterByName(list, requestedNames) ==
  IF list = <<>> THEN <<>>
  ELSE (IF nameMatches(Head(list), requestedNames) THEN <<Head(list)>> ELSE <<>>)
       \o filterByName(Tail(list), requestedNames)

\* selectedSVGs.map(svg => [title.toLowerCase(), kebabName]).flat()
foundNamesTitlesOnly(selected) ==
  [k \in 1..Len(selected) |-> toLowerCase(selected[k].title)]
foundNames(selected) ==
  Flatten([k \in 1..Len(selected) |->
             <<toLowerCase(selected[k].title), kebabName(selected[k].title)>>])

RECURSIVE notFoundOf(_, _)
\* requestedNames.filter(name => !foundNames.some(f => f === name.toLowerCase()))
notFoundOf(requestedNames, found) ==
  IF requestedNames = <<>> THEN <<>>
  ELSE (IF \E k \in 1..Len(found) : found[k] = toLowerCase(Head(requestedNames))
        THEN <<>> ELSE <<Head(requestedNames)>>)
       \o notFoundOf(Tail(requestedNames), found)

HintCount == 10
\* svgs.slice(0, 10).map(slug)
hintSlugs(list) ==
  [k \in 1..(IF Len(list) < HintCount THEN Len(list) ELSE HintCount) |->
     kebabName(list[k].title)]

Say(msg, data, n, m) == [msg |-> msg, data |-> data, n |-> n, m |-> m]

(***************************************************************************)
(* The generation loop: the body of `for (const svg of selectedSVGs)` as   *)
(* the sequence of its steps.  A fetch (axios.get, and extractSvgContent   *)
(* on what it returns) and a write (fs.writeFile) can throw; a push cannot.*)
(***************************************************************************)
NoRec == [name |-> <<>>, fileName |-> <<>>, hasDarkLight |-> FALSE, isWordmark |-> FALSE]

Fetch(stage, loc) ==
  [op |-> "fetch", stage |-> stage, loc |-> loc, file |-> <<>>,
   content |-> OtherFile, rec |-> NoRec]
Write(stage, file, content) ==
  [op |-> "write", stage |-> stage, loc |-> "", file |-> file,
   content |-> content, rec |-> NoRec]
Push(stage, rec) ==
  [op |-> "push", stage |-> stage, loc |-> "", file |-> <<>>,
   content |-> OtherFile, rec |-> rec]

\* axios.get of the one locator, or of light and then dark
FetchSteps(stage, route) ==
  IF route.kind = "single" THEN <<Fetch(stage, route.light)>>
  ELSE <<Fetch(stage, route.light), Fetch(stage, route.dark)>>

\* The template of the route component: the themed one waits for the mount.
RouteTemplate(route) == IF route.kind = "single" THEN "plain" ELSE "themedMounted"
\* The template of the wordmark component: the themed one reads the theme at once.
WordmarkTemplate(route) == IF route.kind = "single" THEN "plain" ELSE "themedImmediate"

IconWidth == 24
IconHeight == 24
WordmarkWidth == 100
WordmarkHeight == 24

RouteSteps(svg) ==
  LET name == componentName(svg.title)
      file == fileName(svg.title)
  IN  FetchSteps("route", svg.route)
      \o <<Write("route", file \o DotTsx,
                 Component(name, RouteTemplate(svg.route), IconWidth, IconHeight, svg.route)),
           Push("route", [name |-> name, fileName |-> file,
                          hasDarkLight |-> svg.route.kind # "single",
                          isWordmark |-> FALSE])>>

WordmarkSteps(svg) ==
  LET name == componentName(svg.title) \o WordmarkName
      file == fileName(svg.title) \o WordmarkSuffix
  IN  IF svg.wordmark.kind = "none" THEN <<>>
      ELSE FetchSteps("wordmark", svg.wordmark)
           \o <<Write("wordmark", file \o DotTsx,
                      Component(name, WordmarkTemplate(svg.wordmark),
                                WordmarkWidth, WordmarkHeight, svg.wordmark)),
                Push("wordmark", [name |-> name, fileName |-> file,
                                  hasDarkLight |-> svg.wordmark.kind # "single",
                                  isWordmark |-> TRUE])>>

\* The record pushed before the file is written.
ItemStepsPushFirst(svg) ==
  LET r == RouteSteps(svg)
      n == Len(r)
  IN  SubSeq(r, 1, n - 2) \o <<r[n], r[n-1]>> \o WordmarkSteps(svg)
ItemSteps(svg) == RouteSteps(svg) \o WordmarkSteps(svg)

Fallible(steps) == {k \in 1..Len(steps) : steps[k].op # "push"}

\* What a run has done so far.
Progress(d, created, f, w) ==
  [disk |-> d, created |-> created, fetched |-> f, written |-> w, failed |-> "none"]

RECURSIVE Exec(_, _, _)
\* The steps in order; the k-th step that can throw does (k = 0: none does),
\* and the rest of the item is skipped (the catch of line 321).
Exec(steps, k, st) ==
  IF steps = <<>> THEN st
  ELSE LET s == Head(steps)
       IN  IF s.op = "push"
           THEN Exec(Tail(steps), k, [st EXCEPT !.created = Append(@, s.rec)])
           ELSE IF k = 1
           THEN [st EXCEPT !.failed = s.stage \o "-" \o s.op,
                           !.fetched = IF s.op = "fetch" THEN @ \cup {s.loc} ELSE @]
           ELSE Exec(Tail(steps), IF k = 0 THEN 0 ELSE k - 1,
                     IF s.op = "fetch"
                     THEN [st EXCEPT !.fetched = @ \cup {s.loc}]
                     ELSE [st EXCEPT !.disk = WriteFile(@, s.file, s.content),
                                     !.written = @ \cup {s.file}])

(***************************************************************************)
(* The rebuild of index.tsx (lines 328-371).                               *)
(***************************************************************************)
\* fileContent.match(/export const (\w+):/): a generated component declares
\* `export const <name>:`; no name, no match.
ExportMatches(content) == content.kind = "component" /\ content.exportName # <<>>
\* fileContent.includes('useTheme')
IncludesUseTheme(content) == content.template \in {"themedMounted", "themedImmediate"}

\* The body of `for (const file of componentFiles)`.
scanFile(all, file, d) ==
  IF EndsWith(file, DotTsx) /\ file # IndexFile
  THEN LET name == RemoveFirst(file, DotTsx)
       IN  IF \E k \in 1..Len(all) : all[k].fileName = name THEN all
           ELSE IF ExportMatches(d[file])
                THEN Append(all, [name |-> d[file].exportName, fileName |-> name,
                                  hasDarkLight |-> IncludesUseTheme(d[file]),
                                  isWordmark |-> Contains(name, WordmarkSuffix)])
                ELSE all
  ELSE all

RECURSIVE scanFiles(_, _, _)
scanFiles(all, files, d) ==
  IF files = <<>> THEN all
  ELSE scanFiles(scanFile(all, Head(files), d), Tail(files), d)

RECURSIVE SetToSeq(_)
SetToSeq(S) ==
  IF S = {} THEN <<>>
  ELSE LET x == CHOOSE y \in S : TRUE IN <<x>> \o SetToSeq(S \ {x})

RECURSIVE Perms(_)
Perms(S) ==
  IF S = {} THEN {<<>>}
  ELSE UNION {{<<x>> \o p : p \in Perms(S \ {x})} : x \in S}

\* fs.readdir gives the files in an order the file system chooses.  A file
\* that line 335 or line 342 passes over adds nothing wherever it stands, so
\* only the order of the others is drawn.
ReaddirOrders(d, created) ==
  LET adds == {f \in DOMAIN d : scanFile(created, f, d) # created}
  IN  {SetToSeq(DOMAIN d \ adds) \o p : p \in Perms(adds)}

(***************************************************************************)
(* The directory a run finds: absent, or as earlier runs of the tool left  *)
(* it, possibly with files of the user's.                                  *)
(***************************************************************************)
RECURSIVE GenerateAll(_, _)
GenerateAll(st, selection) ==
  IF selection = <<>> THEN st
  ELSE GenerateAll(Exec(ItemSteps(Head(selection)), 0, st), Tail(selection))

EarlierRun(d, selection) ==
  LET st == GenerateAll(Progress(d, <<>>, {}, {}), selection)
      order == CHOOSE o \in ReaddirOrders(st.disk, st.created) : TRUE
  IN  WriteFile(st.disk, IndexFile,
                IndexContent(scanFiles(st.created, order, st.disk)))

NotesFile == <<"n","o","t","e","s",".","t","s","x">>
ReadmeFile == <<"r","e","a","d","m","e",".","m","d">>
UserFiles == WriteFile(WriteFile(EmptyDisk, NotesFile, OtherFile), ReadmeFile, OtherFile)

PriorDirs ==
  { [exists |-> FALSE, disk |-> EmptyDisk],
    [exists |-> TRUE, disk |-> EarlierRun(UserFiles, <<IconABJoined>>)],
    [exists |-> TRUE, disk |-> EarlierRun(EmptyDisk, <<IconGitHub>>)] }

(***************************************************************************)
(* One run of add(args).                                                   *)
(***************************************************************************)
InitRun ==
  /\ pc = "start"
  /\ args \in ArgLists
  /\ \E prior \in PriorDirs :
       /\ disk = prior.disk /\ disk0 = prior.disk
       /\ dirExists = prior.exists /\ dirExists0 = prior.exists
  /\ svgs = <<>>
  /\ selectedSVGs = <<>>
  /\ notFound = <<>>
  /\ i = 1
  /\ createdComponents = <<>>
  /\ allComponents = <<>>
  /\ console = <<>>
  /\ outcome = "running"
  /\ fetched = {}
  /\ written = {}
  /\ prompted = FALSE
  /\ processed = <<>>

IdleRun ==
  /\ pc = "idle"
  /\ args = <<>>
  /\ disk = EmptyDisk /\ disk0 = EmptyDisk
  /\ dirExists = FALSE /\ dirExists0 = FALSE
  /\ svgs = <<>>
  /\ selectedSVGs = <<>>
  /\ notFound = <<>>
  /\ i = 1
  /\ createdComponents = <<>>
  /\ allComponents = <<>>
  /\ console = <<>>
  /\ outcome = "running"
  /\ fetched = {}
  /\ written = {}
  /\ prompted = FALSE
  /\ processed = <<>>

\* The outer catch (lines 384-386).
Caught(how) ==
  /\ console' = Append(console, Say("Failed to fetch or process SVGs", <<>>, 0, 0))
  /\ outcome' = how
  /\ pc' = "done"

\* !svgs || svgs.length === 0
IsEmptyCatalogNever(data) == FALSE
IsEmptyCatalog(data) == Len(data) = 0

\* axios.get('https://api.svgl.app') throws.
FetchCatalogFails ==
  /\ pc = "start"
  /\ Caught("fetchFailed")
  /\ UNCHANGED <<args, svgs, selectedSVGs, notFound, i, createdComponents,
                 allComponents, dirExists, disk, disk0, dirExists0, fetched,
                 written, prompted, processed>>
  /\ UNCHANGED <<fnVars, uiVars>>

\* axios.get returns the catalog (lines 34-43).
FetchCatalog ==
  /\ pc = "start"
  /\ \E data \in Catalogs :
       /\ svgs' = data
       /\ IF IsEmptyCatalog(data)
          THEN /\ console' = Append(console, Say("No SVGs found in the repository.", <<>>, 0, 0))
               /\ outcome' = "emptyCatalog"
               /\ pc' = "done"
          ELSE /\ pc' = "select"
               /\ UNCHANGED <<console, outcome>>
  /\ UNCHANGED <<args, selectedSVGs, notFound, i, createdComponents,
                 allComponents, dirExists, disk, disk0, dirExists0, fetched,
                 written, prompted, processed>>
  /\ UNCHANGED <<fnVars, uiVars>>

\* Names on the command line (lines 48-105).
SelectExact ==
  /\ pc = "select"
  /\ Len(args) > 0
  /\ LET requestedNames == requestedNamesOf(args)
         sel == filterByName(svgs, requestedNames)
         nf == notFoundOf(requestedNames, foundNames(sel))
     IN  /\ selectedSVGs' = sel
         /\ prompted' = TRUE
         /\ IF Len(sel) = 0
            THEN /\ console' = console
                      \o <<Say("None of the requested SVGs were found.", <<>>, 0, 0),
                           Say("Available SVGs:", hintSlugs(svgs), 0, 0)>>
                 /\ outcome' = "noMatch"
                 /\ pc' = "done"
                 /\ UNCHANGED notFound
            ELSE /\ notFound' = nf
                 /\ console' = console
                      \o <<Say("Found exact matches",
                               [k \in 1..Len(sel) |-> sel[k].title], Len(sel), 0)>>
                      \o (IF Len(nf) > 0
                          THEN <<Say("Could not find exact matches for", nf, 0, 0)>>
                          ELSE <<>>)
                 /\ pc' = "ensureDir"
                 /\ UNCHANGED outcome
  /\ UNCHANGED <<args, svgs, i, createdComponents, allComponents, dirExists,
                 disk, disk0, dirExists0, fetched, written, processed>>
  /\ UNCHANGED <<fnVars, uiVars>>

\* The values of the boxes ticked, in the order of the choices.
Ticked(list, S) ==
  LET F[k \in 0..Len(list)] ==
        IF k = 0 THEN <<>>
        ELSE IF k \in S THEN Append(F[k-1], list[k]) ELSE F[k-1]
  IN  F[Len(list)]

\* No names: the checkbox prompt (lines 107-126), then `if (selectedSVGs.length > 0)`.
SelectInteractive ==
  /\ pc = "select"
  /\ Len(args) = 0
  /\ \E S \in SUBSET (1..Len(svgs)) :
       /\ selectedSVGs' = Ticked(svgs, S)
       /\ IF S = {}
          THEN outcome' = "nothingSelected" /\ pc' = "done"
          ELSE pc' = "ensureDir" /\ UNCHANGED outcome
  /\ prompted' = TRUE
  /\ UNCHANGED <<args, svgs, notFound, i, createdComponents, allComponents,
                 dirExists, disk, console, disk0, dirExists0, fetched, written,
                 processed>>
  /\ UNCHANGED <<fnVars, uiVars>>

\* fs.ensureDir(componentsDir) (line 134); createdComponents = [] (line 137).
EnsureDir ==
  /\ pc = "ensureDir"
  /\ dirExists' = TRUE
  /\ createdComponents' = <<>>
  /\ i' = 1
  /\ pc' = "loop"
  /\ UNCHANGED <<args, svgs, selectedSVGs, notFound, allComponents, disk,
                 console, outcome, disk0, dirExists0, fetched, written,
                 prompted, processed>>
  /\ UNCHANGED <<fnVars, uiVars>>

EnsureDirFails ==
  /\ pc = "ensureDir"
  /\ Caught("ioFailed")
  /\ UNCHANGED <<args, svgs, selectedSVGs, notFound, i, createdComponents,
                 allComponents, dirExists, disk, disk0, dirExists0, fetched,
                 written, prompted, processed>>
  /\ UNCHANGED <<fnVars, uiVars>>

\* Where the loop goes after an item, thrown or not: to the next item, and
\* past the last one to the rebuild.
AfterItemAbortOnThrow(k, n, failed) ==
  IF failed # "none" THEN "done" ELSE IF k < n THEN "loop" ELSE "rebuild"
AfterItem(k, n, failed) == IF k < n THEN "loop" ELSE "rebuild"

\* One iteration of the loop (lines 140-326).
ProcessItem ==
  /\ pc = "loop"
  /\ i <= Len(selectedSVGs)
  /\ LET svg == selectedSVGs[i]
         steps == ItemSteps(svg)
     IN  \E k \in 0..Cardinality(Fallible(steps)) :
           LET st == Exec(steps, k, Progress(disk, createdComponents, fetched, written))
           IN  /\ disk' = st.disk
               /\ createdComponents' = st.created
               /\ fetched' = st.fetched
               /\ written' = st.written
               /\ console' = IF st.failed = "none" THEN console
                             ELSE Append(console,
                                         Say("Failed to create component for",
                                             <<svg.title>>, 0, 0))
               /\ processed' = Append(processed,
                                      [title |-> svg.title, failed |-> st.failed,
                                       pushed |-> Len(st.created) - Len(createdComponents)])
               /\ pc' = AfterItem(i, Len(selectedSVGs), st.failed)
  /\ i' = i + 1
  /\ UNCHANGED <<args, svgs, selectedSVGs, notFound, allComponents, dirExists,
                 outcome, disk0, dirExists0, prompted>>
  /\ UNCHANGED <<fnVars, uiVars>>

\* readdir, the scan, the write of index.tsx and the summary (lines 328-382).
Rebuild ==
  /\ pc = "rebuild"
  /\ \E order \in ReaddirOrders(disk, createdComponents) :
       LET all == scanFiles(createdComponents, order, disk)
       IN  /\ allComponents' = all
           /\ disk' = WriteFile(disk, IndexFile, IndexContent(all))
           /\ console' = Append(console,
                                Say("Created new React components and exported all",
                                    <<>>, Len(createdComponents), Len(all)))
  /\ written' = written \cup {IndexFile}
  /\ outcome' = "ok"
  /\ pc' = "done"
  /\ UNCHANGED <<args, svgs, selectedSVGs, notFound, i, createdComponents,
                 dirExists, disk0, dirExists0, fetched, prompted, processed>>
  /\ UNCHANGED <<fnVars, uiVars>>

\* readdir, readFile or the write of index.tsx throws.
RebuildFails ==
  /\ pc = "rebuild"
  /\ Caught("ioFailed")
  /\ UNCHANGED <<args, svgs, selectedSVGs, notFound, i, createdComponents,
                 allComponents, dirExists, disk, disk0, dirExists0, fetched,
                 written, prompted, processed>>
  /\ UNCHANGED <<fnVars, uiVars>>

NextRun ==
  \/ FetchCatalogFails
  \/ FetchCatalog
  \/ SelectExact
  \/ SelectInteractive
  \/ EnsureDir
  \/ EnsureDirFails
  \/ ProcessItem
  \/ Rebuild
  \/ RebuildFails

(***************************************************************************)
(* A generated component in a React tree: its render function, from its    *)
(* props, the resolved theme of next-themes and its own `mounted` state.   *)
(***************************************************************************)
NoProps == [width |-> 0, height |-> 0]
NoRender == [markup |-> "", width |-> 0, height |-> 0, mounted |-> FALSE, theme |-> ""]

\* const isDark = mounted && resolvedTheme === 'dark'   (line 214)
\* const isDark = resolvedTheme === 'dark'              (line 294)
IsDark(comp, theme, mounted) ==
  CASE comp.template = "themedMounted" -> mounted /\ theme = "dark"
    [] comp.template = "themedImmediate" -> theme = "dark"
    [] OTHER -> FALSE

\* What one call of the component returns.
Render(comp, props, theme, mounted) ==
  [markup |-> IF IsDark(comp, theme, mounted) THEN comp.dark ELSE comp.light,
   width |-> IF props.width = 0 THEN comp.width ELSE props.width,
   height |-> IF props.height = 0 THEN comp.height ELSE props.height,
   mounted |-> mounted, theme |-> theme]

\* The components add writes for the icons of the catalog.
GeneratedComponents ==
  LET st == GenerateAll(Progress(EmptyDisk, <<>>, {}, {}),
                        SetToSeq(Icons \cup {IconABJoined}))
  IN  {st.disk[f] : f \in DOMAIN st.disk}

Themes == {"light", "dark", "undefined"}
PropSets == {NoProps, [width |-> 32, height |-> 32], [width |-> 48, height |-> 0]}

InitUi ==
  /\ uiComp \in GeneratedComponents
  /\ uiProps \in PropSets
  /\ uiTheme \in Themes
  /\ uiMounted = FALSE
  /\ uiRendered = NoRender

IdleUi ==
  /\ uiComp = OtherFile
  /\ uiProps = NoProps
  /\ uiTheme = "undefined"
  /\ uiMounted = TRUE
  /\ uiRendered = NoRender

\* The render on the server and the first render on the client.
FirstRender ==
  /\ uiComp.kind = "component"
  /\ ~uiMounted
  /\ uiRendered' = Render(uiComp, uiProps, uiTheme, FALSE)
  /\ UNCHANGED <<uiComp, uiProps, uiTheme, uiMounted>>
  /\ UNCHANGED <<runVars, fnVars>>

\* The component has mounted: its effects run (setMounted(true), line 210)
\* and it renders again.
Mount ==
  /\ uiComp.kind = "component"
  /\ ~uiMounted
  /\ uiRendered # NoRender
  /\ uiMounted' = TRUE
  /\ uiRendered' = Render(uiComp, uiProps, uiTheme, TRUE)
  /\ UNCHANGED <<uiComp, uiProps, uiTheme>>
  /\ UNCHANGED <<runVars, fnVars>>

\* The theme changes under the component, which renders again if it is in the tree.
ThemeChange ==
  /\ uiComp.kind = "component"
  /\ \E t \in Themes \ {uiTheme} :
       /\ uiTheme' = t
       /\ uiRendered' = IF uiRendered = NoRender THEN NoRender
                        ELSE Render(uiComp, uiProps, t, uiMounted)
  /\ UNCHANGED <<uiComp, uiProps, uiMounted>>
  /\ UNCHANGED <<runVars, fnVars>>

NextUi == FirstRender \/ Mount \/ ThemeChange

(***************************************************************************)
(* Specifications.                                                         *)
(***************************************************************************)
Init == InitRun /\ IdleFn /\ IdleUi
Next == NextRun
Spec == Init /\ [][Next]_vars

InitFnSpec == IdleRun /\ InitFn /\ IdleUi
SpecFn == InitFnSpec /\ [][NextFn]_vars

InitUiSpec == IdleRun /\ IdleFn /\ InitUi
SpecUi == InitUiSpec /\ [][NextUi]_vars

(***************************************************************************)
(* Properties.                                                             *)
(***************************************************************************)
NoDuplicates(seq) ==
  \A j, k \in 1..Len(seq) : j # k => seq[j] # seq[k]

\* The n-th smallest element of a set of numbers.
Nth(M, n) == CHOOSE k \in M : Cardinality({m \in M : m < k}) = n - 1

\* The elements of list at the positions M, in the order of the list.
Picked(list, M) == [n \in 1..Cardinality(M) |-> list[Nth(M, n)]]

\* The component files of a directory, and their slugs.
ComponentFiles(d) ==
  {f \in DOMAIN d : EndsWith(f, DotTsx) /\ f # IndexFile /\ ExportMatches(d[f])}
SlugOfFile(f) == SubSeq(f, 1, Len(f) - Len(DotTsx))

\* ----------------------------------------------------------------------
\* C1: after a run that rebuilt the export file, index.tsx names exactly
\* the components found in the output directory together with those written
\* during the run, once per file slug, and no export identifier stands
\* twice in its import lines or in its export list.
C1_IndexNamesUnionOncePerSlug ==
  outcome = "ok" =>
    LET idx == disk[IndexFile]
        slugs == [k \in 1..Len(idx.imports) |-> idx.imports[k][2]]
        names == [k \in 1..Len(idx.imports) |-> idx.imports[k][1]]
        expected == {SlugOfFile(f) : f \in ComponentFiles(disk)}
                    \cup {createdComponents[k].fileName : k \in 1..Len(createdComponents)}
    IN  /\ Range(slugs) = expected
        /\ NoDuplicates(slugs)
        /\ NoDuplicates(names)
        /\ NoDuplicates(idx.exports)

\* ----------------------------------------------------------------------
\* C2: an item of the loop that throws does not end the loop: every item
\* of the selection is processed, in order, and the rebuild follows; when the
\* rebuild's own file operations succeed, index.tsx is written and names
\* every component created.
C2_ItemFailureDoesNotAbort ==
  /\ pc = "loop" => Len(processed) = i - 1 /\ i <= Len(selectedSVGs)
  /\ (processed # <<>> /\ pc # "loop") =>
       /\ pc \in {"rebuild", "done"}
       /\ Len(processed) = Len(selectedSVGs)
       /\ \A k \in 1..Len(processed) : processed[k].title = selectedSVGs[k].title
       /\ pc = "done" => outcome \in {"ok", "ioFailed"}
  /\ outcome = "ok" =>
       /\ IndexFile \in written
       /\ \A k \in 1..Len(createdComponents) :
            <<createdComponents[k].name, createdComponents[k].fileName>>
              \in Range(disk[IndexFile].imports)

\* The first of two items threw, the second was generated and exported.
C2_Witness ==
  /\ outcome = "ok"
  /\ Len(processed) = 2
  /\ processed[1].failed = "route-fetch"
  /\ processed[2].failed = "none"
  /\ Len(createdComponents) > 0
  /\ createdComponents[1].fileName = fileName(selectedSVGs[2].title)

\* ----------------------------------------------------------------------
\* C3: when the catalog fetch fails or returns an empty list, nothing is
\* written (no file, no directory), nothing is selected and a failure
\* message is printed.
C3_NoCatalogNoEffect ==
  (pc # "start" /\ svgs = <<>>) =>
    /\ pc = "done"
    /\ outcome \in {"fetchFailed", "emptyCatalog"}
    /\ disk = disk0
    /\ dirExists = dirExists0
    /\ written = {}
    /\ fetched = {}
    /\ ~prompted
    /\ selectedSVGs = <<>>
    /\ Len(console) = 1
    /\ console[1].msg \in {"Failed to fetch or process SVGs",
                           "No SVGs found in the repository."}

\* An empty catalog, with names given and no output directory yet.
C3_Witness ==
  /\ outcome = "emptyCatalog"
  /\ args # <<>>
  /\ ~dirExists
  /\ console = <<Say("No SVGs found in the repository.", <<>>, 0, 0)>>

\* ----------------------------------------------------------------------
\* C4: with names given, an icon of the catalog is selected exactly when
\* some lowercased name equals its file slug or its lowercased title, and
\* the selection keeps the order of the catalog; "github" selects "GitHub"
\* and not "GitHub Copilot".  Stated of the state the selection step leaves
\* (no later step assigns args, svgs or selectedSVGs).
C4_ExactMatchSelection ==
  (Len(args) > 0 /\ (pc = "ensureDir" \/ outcome = "noMatch")) =>
    LET M == {k \in 1..Len(svgs) :
                \E j \in 1..Len(args) :
                  \/ toLowerCase(args[j]) = fileName(svgs[k].title)
                  \/ toLowerCase(args[j]) = toLowerCase(svgs[k].title)}
    IN  /\ selectedSVGs = Picked(svgs, M)
        /\ args = <<TokGitHub>> =>
             /\ IconCopilot \notin Range(selectedSVGs)
             /\ IconGitHub \in Range(svgs) => IconGitHub \in Range(selectedSVGs)

\* "github" against a catalog of GitHub Copilot and GitHub.
C4_Witness ==
  /\ pc = "ensureDir"
  /\ args = <<TokGitHub>>
  /\ svgs = <<IconCopilot, IconGitHub>>
  /\ selectedSVGs = <<IconGitHub>>

\* The files the selection is written to.
SelectionFiles ==
  UNION {{st.file : st \in {s \in Range(ItemSteps(selectedSVGs[k])) : s.op = "write"}} :
           k \in 1..Len(selectedSVGs)}

\* ----------------------------------------------------------------------
\* C5: a run whose selection shares no file slug with the components
\* already in the directory leaves those files as they were, fetches none of
\* their markup, and exports the old and the new symbols, each once.
C5_NonOverlappingRunKeepsOldExportsUnion ==
  (outcome = "ok" /\ SelectionFiles \cap ComponentFiles(disk0) = {}) =>
    LET old == ComponentFiles(disk0)
        exports == disk[IndexFile].exports
    IN  /\ \A f \in old :
             /\ f \in DOMAIN disk /\ disk[f] = disk0[f]
             /\ f \notin written
             /\ {disk0[f].light, disk0[f].dark} \cap fetched = {}
        /\ Range(exports) = {disk0[f].exportName : f \in old}
                            \cup {createdComponents[k].name :
                                    k \in 1..Len(createdComponents)}
        /\ NoDuplicates(exports)

\* ----------------------------------------------------------------------
\* C6: a theme-aware component, of a route or of a wordmark, renders its
\* light markup on every render before it has mounted, whatever the theme,
\* and its dark markup only once mounted under the dark theme.
C6_LightUntilMounted ==
  (uiRendered # NoRender /\ uiComp.template \in {"themedMounted", "themedImmediate"}) =>
    /\ ~uiRendered.mounted => uiRendered.markup = uiComp.light
    /\ uiRendered.markup = uiComp.dark =>
         uiRendered.mounted /\ uiRendered.theme = "dark"

\* ----------------------------------------------------------------------
\* C7: with names given and at least one match, the run goes on with the
\* matches and reports exactly the names that selected no icon of the
\* catalog, in the order given.  The report is stated of the state the
\* selection step leaves (no later step assigns args, svgs or notFound).
C7_ReportedAreTheUnmatched ==
  /\ (Len(args) > 0 /\ prompted /\ selectedSVGs # <<>>) => outcome # "noMatch"
  /\ (Len(args) > 0 /\ pc = "ensureDir") =>
       LET U == {j \in 1..Len(args) :
                   \A k \in 1..Len(svgs) :
                     /\ toLowerCase(args[j]) # fileName(svgs[k].title)
                     /\ toLowerCase(args[j]) # toLowerCase(svgs[k].title)}
           report == Say("Could not find exact matches for", notFound, 0, 0)
       IN  /\ selectedSVGs # <<>>
           /\ notFound = Picked(requestedNamesOf(args), U)
           /\ (U # {}) <=> (report \in Range(console))

\* "github" matched, "A-B" did not and is reported in lower case.
C7_Witness ==
  /\ args = <<TokGitHub, TokADashB>>
  /\ selectedSVGs = <<IconGitHub>>
  /\ notFound = <<TitleADashB>>
  /\ pc = "ensureDir"

\* ----------------------------------------------------------------------
\* C8: the slug of a title holds only lowercase letters, digits and '-',
\* with no '-' at either end and no two in a row; the slug of a slug is
\* that slug; the filter's derivation and the loop's agree.
C8_SlugShape ==
  (fnPc \in {"slugged", "reslugged"}) =>
    /\ \A k \in 1..Len(fnSlug) : fnSlug[k] \in LowerSet \cup DigitSet \cup {"-"}
    /\ fnSlug # <<>> => fnSlug[1] # "-" /\ fnSlug[Len(fnSlug)] # "-"
    /\ \A k \in 1..(Len(fnSlug) - 1) : ~(fnSlug[k] = "-" /\ fnSlug[k+1] = "-")
    /\ fnKebab = fnSlug
    /\ fnPc = "reslugged" => fnReslug = fnSlug

\* "B -a": an upper case letter and a run of two separators.
C8_Witness ==
  /\ fnPc = "reslugged"
  /\ fnTitle = <<"B", " ", "-", "a">>
  /\ fnSlug = <<"b", "-", "a">>

\* The occurrences of the attribute `name`: the matches that start a name.
AttributeOccurrences(s, name) ==
  {m \in AttrRegexMatches(s, name) : m[1] = 1 \/ s[m[1] - 1] \in WhiteSpace}

WithoutFirstAttribute(s, name) ==
  LET ms == AttributeOccurrences(s, name)
  IN  IF ms = {} THEN s
      ELSE LET m == CHOOSE x \in ms : \A y \in ms : x[1] <= y[1]
           IN  SubSeq(s, 1, m[1] - 1) \o SubSeq(s, m[2] + 1, Len(s))

\* ----------------------------------------------------------------------
\* C9: extractSvgContent returns its input trimmed, without its first width
\* attribute and without its first height attribute, and with everything
\* else as it was.
C9_OnlySizeAttributesRemoved ==
  fnPc = "sanitized" =>
    LET t == trim(fnMarkup)
    IN  /\ fnOut = WithoutFirstAttribute(WithoutFirstAttribute(t, WidthName), HeightName)
        /\ Contains(t, AttrStrokeWidth) => Contains(fnOut, AttrStrokeWidth)
        /\ Contains(fnOut, ChildPath) = Contains(t, ChildPath)

\* The failures logged, the items that threw, and the records pushed by the
\* items before the k-th.
FailureLog ==
  SelectSeq(console, LAMBDA m : m.msg = "Failed to create component for")
FailedItems == SelectSeq(processed, LAMBDA p : p.failed # "none")

RECURSIVE PushedBefore(_)
PushedBefore(k) == IF k <= 1 THEN 0 ELSE PushedBefore(k - 1) + processed[k - 1].pushed

\* ----------------------------------------------------------------------
\* C10 as stated: an item that throws at any step leaves no record among
\* the components created, and is logged with its title.
C10_FailedItemLeavesNoRecord ==
  /\ \A k \in 1..Len(processed) : processed[k].failed # "none" => processed[k].pushed = 0
  /\ Len(FailureLog) = Len(FailedItems)

\* C10 as the code has it: an item that throws while its route is fetched
\* or its component written leaves no record; one that throws while its
\* wordmark is fetched or written leaves the record of its component, which
\* is counted, and none of its wordmark.  Each is logged with its title, and
\* the count reported is the number of records.
C10_FailedItemRecords ==
  /\ \A k \in 1..Len(processed) :
       LET p == processed[k]
           first == PushedBefore(k) + 1
       IN  /\ p.failed \in {"route-fetch", "route-write"} => p.pushed = 0
           /\ p.failed \in {"wordmark-fetch", "wordmark-write"} =>
                /\ p.pushed = 1
                /\ first <= Len(createdComponents)
                /\ createdComponents[first].fileName = fileName(p.title)
                /\ ~createdComponents[first].isWordmark
  /\ Len(FailureLog) = Len(FailedItems)
  /\ \A k \in 1..Len(FailureLog) : FailureLog[k].data = <<FailedItems[k].title>>
  /\ Len(createdComponents) = PushedBefore(Len(processed) + 1)
  /\ outcome = "ok" => console[Len(console)].n = Len(createdComponents)

\* The wordmark of the one item could not be fetched: one component created.
C10_Witness ==
  /\ outcome = "ok"
  /\ Len(processed) = 1
  /\ processed[1].failed = "wordmark-fetch"
  /\ processed[1].pushed = 1
  /\ console[Len(console)].n = 1

====
